---- MODULE Spec2Model ----
(***************************************************************************)
(* Model of Elo_Ratings.py: a Streamlit page that shows two players, lets  *)
(* the visitor draft one, updates both Elo ratings in the "Sheet1"        *)
(* worksheet and counts the visitor's votes in the "UserVotes" worksheet.  *)
(*                                                                         *)
(* Streamlit executes the whole script on every interaction.  One action   *)
(* of the model is one script run: the top of the script (lines 243-299)   *)
(* followed by the handler of the widget that triggered the run.           *)
(* st.session_state is a dictionary; it is modelled as a function whose    *)
(* DOMAIN is the set of keys present.  A pandas DataFrame is a sequence of *)
(* rows.  Ratings are integers.  Remote failures of the UserVotes          *)
(* worksheet and of the initial read of Sheet1 are not modelled.           *)
(***************************************************************************)
EXTENDS Integers, Sequences, FiniteSets, TLC

VARIABLES
    sheet,          \* worksheet "Sheet1": rows name, elo, pos, Votes
    votes_sheet,    \* worksheet "UserVotes": rows username, total, weekly, last
    today,          \* datetime.date.today(), as a day number
    choices_raises, \* whether random.choices rejects non-finite weights
    session_state,  \* st.session_state of the connected browser session
    sessions,       \* two browser sessions voting at the same time
    elo_call        \* a call of calculate_elo: its arguments and its result

vars ==
    <<sheet, votes_sheet, today, choices_raises, session_state, sessions,
      elo_call>>

\* what the single-session page leaves alone
aside == <<sessions, elo_call>>

----------------------------------------------------------------------------
(* Bounds of the model *)

MaxVotes == 2
MaxTotal == 3
MaxRows == 3
MaxDay == 7
MaxSessionVotes == 4
MinElo == 1150
MaxElo == 1850

(* Program constants *)

K == 24
Band == 50

None == "None"

----------------------------------------------------------------------------
(* Strings *)

\* str.lower() on the strings of the model
Lower(s) ==
    CASE s = "Zoe" -> "zoe"
      [] s = "Bo" -> "bo"
      [] s = "Zed" -> "zed"
      [] s = "Cy" -> "cy"
      [] s = "Bo " -> "bo "
      [] OTHER -> s

\* str.strip() on the strings of the model
Strip(s) ==
    CASE s = "Bo " -> "Bo"
      [] s = "bo " -> "bo"
      [] OTHER -> s

\* datetime weekday(): Monday is 0; day 0 of the model is a Monday
Weekday(d) == d % 7

----------------------------------------------------------------------------
(* Sequences as DataFrames *)

Min(S) == CHOOSE x \in S : \A y \in S : x <= y
Max(S) == CHOOSE x \in S : \A y \in S : x >= y

\* dictionary update d[k] = v
Put(d, k, v) == (k :> v) @@ d

\* the empty dictionary
Empty == [k \in {} |-> 0]

----------------------------------------------------------------------------
(* Rating engine *)

\* GainSteps[g] is the least integer d with round(K / (1 + 10^(-d/400))) >= g:
\* the values of d = loser_elo - winner_elo at which the rounded gain of
\* calculate_elo steps up, for k = 24
GainSteps ==
    << -668, -470, -373, -307, -254, -210, -172, -136, -104, -73, -43, -14,
       15, 44, 74, 105, 137, 173, 211, 255, 308, 374, 471, 669 >>

\* round(k * (1 - expected_winner)) = round(k * expected_loser)
Gain(d) == Cardinality({g \in 1..K : d >= GainSteps[g]})

\* mutant of calculate_elo: the loser's share is added instead of subtracted
calculate_elo_loser_gains(winner_elo, loser_elo) ==
    << winner_elo + Gain(loser_elo - winner_elo),
       loser_elo + Gain(loser_elo - winner_elo) >>

\* calculate_elo: <<new_winner_elo, new_loser_elo>>
calculate_elo(winner_elo, loser_elo) ==
    << winner_elo + Gain(loser_elo - winner_elo),
       loser_elo - Gain(loser_elo - winner_elo) >>

----------------------------------------------------------------------------
(* Selection sampler *)

EloValues(df) == {df[i].elo : i \in DOMAIN df}

\* mutant of PositiveWeight: the weights are smoothed and none is zero
PositiveWeight_smoothed(df, row) == row.elo >= Min(EloValues(df))

\* the weight ((elo - min) / (max - min)) ** alpha is positive exactly for the
\* rows above the minimum
PositiveWeight(df, row) == row.elo > Min(EloValues(df))

\* aggressive_weighted_selection: the set of possible results.  When all
\* ratings of df are equal, max - min = 0 and every weight is NaN: random.choices
\* either raises ValueError (it checks that the total is finite) or, where it
\* does not check, its bisection over NaN ends at the last row.
\* A frame without rows has no "elo" column and df[weight_col] raises KeyError.
aggressive_weighted_selection(df) ==
    IF df = <<>> THEN {[raised |-> TRUE]}
    ELSE IF Max(EloValues(df)) = Min(EloValues(df))
    THEN IF choices_raises
         THEN {[raised |-> TRUE]}
         ELSE {[raised |-> FALSE, row |-> df[Len(df)]]}
    ELSE {[raised |-> FALSE, row |-> df[i]] :
            i \in {j \in DOMAIN df : PositiveWeight(df, df[j])}}

\* mutant of close_rating_candidates: the band starts above the pivot
close_rating_candidates_above(players, elo) ==
    LET InBand(row) == row.elo > elo /\ row.elo < elo + Band
    IN  SelectSeq(players, InBand)

\* players[(players["elo"] > elo - 50) & (players["elo"] < elo + 50)]
close_rating_candidates(players, elo) ==
    LET InBand(row) == row.elo > elo - Band /\ row.elo < elo + Band
    IN  SelectSeq(players, InBand)

\* the frame player 2 is drawn from
player2_pool(ss) ==
    IF ss.player2_candidates # <<>> THEN ss.player2_candidates
    ELSE ss.players_cache

----------------------------------------------------------------------------
(* Rating store reads *)

\* groupby("pos")["elo"].rank(method="min", ascending=False)
pos_rank(rows, row) ==
    1 + Cardinality({i \in DOMAIN rows :
                        rows[i].pos = row.pos /\ rows[i].elo > row.elo})

\* insert row into a frame sorted by elo descending, after its equals
RECURSIVE InsertDesc(_, _)
InsertDesc(df, row) ==
    IF df = <<>> THEN <<row>>
    ELSE IF Head(df).elo >= row.elo
         THEN <<Head(df)>> \o InsertDesc(Tail(df), row)
         ELSE <<row>> \o df

\* df.sort_values(by="elo", ascending=False)
RECURSIVE sort_values(_)
sort_values(df) ==
    IF df = <<>> THEN <<>>
    ELSE InsertDesc(sort_values(SubSeq(df, 1, Len(df) - 1)), df[Len(df)])

\* an empty "elo" cell of the worksheet: get_all_records returns '' for it
BlankCell == -1

\* the frame get_players builds from the worksheet.  The default 1500 is
\* assigned only when the whole column is absent or null; with '' among the
\* numbers of the column, ranking and sorting it raise TypeError, get_players
\* reports the error and returns a frame without rows.
players_frame(rows) ==
    IF \E i \in DOMAIN rows : rows[i].elo = BlankCell THEN <<>>
    ELSE sort_values([i \in DOMAIN rows |->
            [name |-> rows[i].name, elo |-> rows[i].elo, pos |-> rows[i].pos,
             pos_rank |-> pos_rank(rows, rows[i])]])

\* get_players: fetch once per session
get_players(ss) ==
    IF "players_cache" \in DOMAIN ss THEN ss
    ELSE Put(ss, "players_cache", players_frame(sheet))

\* get_player_elo: the cached rating of the first row with that name
get_player_elo(ss, player_name) ==
    LET hits == {i \in DOMAIN ss.players_cache :
                   Lower(ss.players_cache[i].name) = Lower(player_name)}
    IN  ss.players_cache[Min(hits)].elo

----------------------------------------------------------------------------
(* Participation ledger *)

\* the frame get_user_data builds from the UserVotes worksheet
user_frame(ledger) ==
    [i \in DOMAIN ledger |->
        [ledger[i] EXCEPT !.username = Lower(ledger[i].username)]]

\* get_user_data: fetch when asked to or when nothing is cached
get_user_data(ss, ledger, force_refresh) ==
    IF force_refresh \/ "user_data_cache" \notin DOMAIN ss
    THEN Put(ss, "user_data_cache", user_frame(ledger))
    ELSE ss

\* mutant of appended_row: the first touch counts as a vote
appended_row_counts_touch(username, count_vote) ==
    [username |-> username, total_votes |-> 1, weekly_votes |-> 1,
     last_voted |-> today]

\* the row appended for a username the cached frame does not hold
appended_row(username, count_vote) ==
    [username |-> username,
     total_votes |-> IF count_vote THEN 1 ELSE 0,
     weekly_votes |-> IF count_vote THEN 1 ELSE 0,
     last_voted |-> today]

\* mutant of weekly_reset_due: every touch on a Monday resets
weekly_reset_every_touch(last_voted) == Weekday(today) = 0

\* the Monday test of update_user_vote
weekly_reset_due(last_voted) == Weekday(today) = 0 /\ last_voted # today

\* the cell updates update_user_vote collects for an existing row, in order
user_updates(values, count_vote) ==
    (IF weekly_reset_due(values.last_voted)
        THEN <<[col |-> 3, value |-> 0]>> ELSE <<>>)
    \o (IF count_vote
        THEN <<[col |-> 2, value |-> values.total_votes + 1],
               [col |-> 3, value |-> values.weekly_votes + 1]>>
        ELSE <<>>)
    \o (IF values.last_voted # today
        THEN <<[col |-> 4, value |-> today]>> ELSE <<>>)

\* one cell of a UserVotes row written
set_user_cell(row, u) ==
    CASE u.col = 2 -> [row EXCEPT !.total_votes = u.value]
      [] u.col = 3 -> [row EXCEPT !.weekly_votes = u.value]
      [] u.col = 4 -> [row EXCEPT !.last_voted = u.value]

\* batch_update: the cell updates applied to one row in the order given
RECURSIVE apply_user_updates(_, _)
apply_user_updates(row, updates) ==
    IF updates = <<>> THEN row
    ELSE apply_user_updates(set_user_cell(row, Head(updates)), Tail(updates))

\* update_user_vote: the session state and the worksheet afterwards;
\* raised when df[df["username"] == username].index[0] finds no row
update_user_vote(ss, ledger, username, count_vote) ==
    LET ss1 == get_user_data(ss, ledger, FALSE)
        df == ss1.user_data_cache
        lowered == {i \in DOMAIN df : df[i].username = Lower(username)}
        exact == {i \in DOMAIN df : df[i].username = username}
    IN  IF lowered = {}
        THEN [raised |-> FALSE, ss |-> ss1,
              votes_sheet |-> Append(ledger, appended_row(username, count_vote))]
        ELSE IF exact = {}
        THEN [raised |-> TRUE, ss |-> ss1, votes_sheet |-> ledger]
        ELSE LET idx == Min(exact)
                 updates == user_updates(ledger[idx], count_vote)
                 written == [ledger EXCEPT
                               ![idx] = apply_user_updates(ledger[idx], updates)]
             IN  IF updates = <<>>
                 THEN [raised |-> FALSE, ss |-> ss1, votes_sheet |-> ledger]
                 ELSE [raised |-> FALSE,
                       ss |-> get_user_data(ss1, written, TRUE),
                       votes_sheet |-> written]

----------------------------------------------------------------------------
(* Rating store writes *)

header_row == <<"name", "elo", "pos", "Votes">>

\* "Votes" in header_row
votes_col_index == \E i \in DOMAIN header_row : header_row[i] = "Votes"

\* the worksheet row whose first cell, stripped and lowered, is the name; 0
\* when there is none
player_row_idx(rows, player_name) ==
    LET hits == {i \in DOMAIN rows :
                   Lower(Strip(rows[i].name)) = Lower(player_name)}
    IN  IF hits = {} THEN 0 ELSE Min(hits)

\* mutant of set_sheet_cell: a Votes cell is incremented where it stands
set_sheet_cell_increments(rows, u) ==
    IF u.col = "elo" THEN [rows EXCEPT ![u.row].elo = u.value]
    ELSE [rows EXCEPT ![u.row].Votes = rows[u.row].Votes + 1]

\* one cell of a Sheet1 row written
set_sheet_cell(rows, u) ==
    IF u.col = "elo" THEN [rows EXCEPT ![u.row].elo = u.value]
    ELSE [rows EXCEPT ![u.row].Votes = u.value]

\* batch_update: the cell updates applied in the order given
RECURSIVE apply_sheet_updates(_, _)
apply_sheet_updates(rows, updates) ==
    IF updates = <<>> THEN rows
    ELSE apply_sheet_updates(set_sheet_cell(rows, Head(updates)), Tail(updates))

\* the cell updates update_google_sheet collects
sheet_updates(ss, rows, idx1, new_elo1, name1, idx2, new_elo2, name2) ==
    (IF new_elo1 # get_player_elo(ss, name1)
        THEN <<[row |-> idx1, col |-> "elo", value |-> new_elo1]>> ELSE <<>>)
    \o (IF new_elo2 # get_player_elo(ss, name2)
        THEN <<[row |-> idx2, col |-> "elo", value |-> new_elo2]>> ELSE <<>>)
    \o (IF votes_col_index
        THEN <<[row |-> idx1, col |-> "Votes", value |-> rows[idx1].Votes + 1],
               [row |-> idx2, col |-> "Votes", value |-> rows[idx2].Votes + 1]>>
        ELSE <<>>)

\* lines 178-202: what update_google_sheet has collected when it reaches
\* batch_update, from the rows it read.  A player whose row is not found is
\* reported, and nothing is to be written.
collected_updates(ss, rows, name1, new_elo1, name2, new_elo2) ==
    LET idx1 == player_row_idx(rows, name1)
        idx2 == player_row_idx(rows, name2)
    IN  IF idx1 = 0 \/ idx2 = 0 THEN <<>>
        ELSE sheet_updates(ss, rows, idx1, new_elo1, name1,
                           idx2, new_elo2, name2)

\* update_google_sheet: the worksheet afterwards.  remote = "api_error": a call
\* to the worksheet raises; the function reports the error and returns.
update_google_sheet(ss, rows, name1, new_elo1, name2, new_elo2, remote) ==
    IF remote = "api_error" THEN rows
    ELSE apply_sheet_updates(rows,
             collected_updates(ss, rows, name1, new_elo1, name2, new_elo2))

----------------------------------------------------------------------------
(* Matchup orchestrator *)

\* lines 214-217: <<new_elo1, new_elo2>>; whoever is not player 1 counts as
\* player 2
vote_elos(player1, player2, selected) ==
    LET won == calculate_elo(player1.elo, player2.elo)
        lost == calculate_elo(player2.elo, player1.elo)
    IN  IF selected = player1.name THEN <<won[1], won[2]>>
        ELSE <<lost[2], lost[1]>>

\* mutant of vote_result: the new ratings are stored as the snapshot too
vote_result_moves_snapshot(ss, player1, new_elo1, player2, new_elo2, selected) ==
    LET new_elos == Put(Put(Empty, player1.name, new_elo1),
                        player2.name, new_elo2)
    IN  Put(Put(Put(ss, "updated_elo", new_elos), "initial_elo", new_elos),
            "selected_player", selected)

\* lines 224-225: the new ratings and the pick stored in the session
vote_result(ss, player1, new_elo1, player2, new_elo2, selected) ==
    Put(Put(ss, "updated_elo",
            Put(Put(Empty, player1.name, new_elo1), player2.name, new_elo2)),
        "selected_player", selected)

\* process_vote for the button of player `selected`: the session state and
\* both worksheets afterwards.  st.session_state["username"] raises KeyError
\* when no username was entered; an exception of update_user_vote ends the
\* handler before the result is stored.
process_vote(ss, selected, remote) ==
    LET player1 == ss.player1
        player2 == ss.player2
        new_elo1 == vote_elos(player1, player2, selected)[1]
        new_elo2 == vote_elos(player1, player2, selected)[2]
        stored == update_google_sheet(ss, sheet, player1.name, new_elo1,
                                      player2.name, new_elo2, remote)
        touch == update_user_vote(ss, votes_sheet, ss.username, TRUE)
    IN  IF "username" \notin DOMAIN ss
        THEN [raised |-> TRUE, ss |-> ss, sheet |-> stored,
              votes_sheet |-> votes_sheet]
        ELSE IF touch.raised
        THEN [raised |-> TRUE, ss |-> touch.ss, sheet |-> stored,
              votes_sheet |-> touch.votes_sheet]
        ELSE [raised |-> FALSE,
              ss |-> vote_result(touch.ss, player1, new_elo1,
                                 player2, new_elo2, selected),
              sheet |-> stored,
              votes_sheet |-> touch.votes_sheet]

\* lines 248-253: the first matchup of a session; an exception of the
\* sampler ends the script run with what was assigned before it
initial_matchup(ss) ==
    UNION {
        IF a.raised THEN {[raised |-> TRUE, ss |-> ss]}
        ELSE LET ss1 == Put(Put(ss, "player1", a.row), "player2_candidates",
                            close_rating_candidates(ss.players_cache, a.row.elo))
             IN  {IF b.raised THEN [raised |-> TRUE, ss |-> ss1]
                  ELSE [raised |-> FALSE, ss |-> Put(ss1, "player2", b.row)] :
                    b \in aggressive_weighted_selection(player2_pool(ss1))}
        : a \in aggressive_weighted_selection(ss.players_cache)}

\* lines 255-269: initial_elo gets an entry for each player of the matchup
\* that has none; selected_player and updated_elo get their defaults
ensure_state(ss) ==
    LET ie0 == IF "initial_elo" \in DOMAIN ss THEN ss.initial_elo ELSE Empty
        ie1 == IF ss.player1.name \in DOMAIN ie0 THEN ie0
               ELSE Put(ie0, ss.player1.name, ss.player1.elo)
        ie2 == IF ss.player2.name \in DOMAIN ie1 THEN ie1
               ELSE Put(ie1, ss.player2.name, ss.player2.elo)
        ss1 == Put(ss, "initial_elo", ie2)
        ss2 == IF "selected_player" \in DOMAIN ss1 THEN ss1
               ELSE Put(ss1, "selected_player", None)
    IN  IF "updated_elo" \in DOMAIN ss2 THEN ss2
        ELSE Put(ss2, "updated_elo", Empty)

\* lines 243-272: the top of the script, run before any widget is handled
script_top(ss) ==
    LET ss1 == get_players(ss)
    IN  IF "player1" \notin DOMAIN ss1 \/ "player2" \notin DOMAIN ss1
        THEN {IF o.raised THEN o
              ELSE [raised |-> FALSE, ss |-> ensure_state(o.ss)] :
                o \in initial_matchup(ss1)}
        ELSE {[raised |-> FALSE, ss |-> ensure_state(ss1)]}

\* lines 394-423: the "Next Matchup" handler and the rerun it forces
next_matchup(ss) ==
    UNION {
        IF a.raised THEN {[raised |-> TRUE, ss |-> ss]}
        ELSE LET ss1 == Put(ss, "player1", a.row)
                 ss2 == IF "last_player1" \notin DOMAIN ss1
                           \/ ss1.last_player1 # a.row.name
                        THEN Put(Put(ss1, "player2_candidates",
                                     close_rating_candidates(ss.players_cache,
                                                             a.row.elo)),
                                 "last_player1", a.row.name)
                        ELSE ss1
             IN  {IF b.raised THEN [raised |-> TRUE, ss |-> ss2]
                  ELSE [raised |-> FALSE,
                        ss |-> ensure_state(
                          Put(Put(Put(Put(ss2, "player2", b.row),
                            "initial_elo",
                            Put(Put(Empty, a.row.name, a.row.elo),
                                b.row.name, b.row.elo)),
                            "selected_player", None),
                            "updated_elo", Empty))] :
                    b \in aggressive_weighted_selection(player2_pool(ss2))}
        : a \in aggressive_weighted_selection(ss.players_cache)}

\* lines 318-319, 325-326: the rating shown for a player of the matchup and
\* the change shown next to it
shown_elo(ss, player) ==
    IF player.name \in DOMAIN ss.updated_elo THEN ss.updated_elo[player.name]
    ELSE player.elo

displayed_change(ss, player) ==
    shown_elo(ss, player)
      - (IF player.name \in DOMAIN ss.initial_elo
         THEN ss.initial_elo[player.name] ELSE player.elo)

----------------------------------------------------------------------------
(* Initial states *)

Usernames == {"al", "Zoe"}

\* the browser sessions of the concurrent page
Sessions == {1, 2}

\* a session before its first script run: nothing read, nothing to write
NewSessionState == [pc |-> "new", ss |-> Empty, updates |-> <<>>]

\* three players; in the third sheet the first name carries a trailing blank,
\* in the fourth the rating of one player is missing
InitSheets ==
    { << [name |-> "Bo", elo |-> 1560, pos |-> "QB", Votes |-> 0],
         [name |-> "Zed", elo |-> 1530, pos |-> "QB", Votes |-> 0],
         [name |-> "Cy", elo |-> 1500, pos |-> "RB", Votes |-> 0] >>,
      << [name |-> "Bo", elo |-> 1500, pos |-> "QB", Votes |-> 0],
         [name |-> "Zed", elo |-> 1500, pos |-> "QB", Votes |-> 0],
         [name |-> "Cy", elo |-> 1500, pos |-> "RB", Votes |-> 0] >>,
      << [name |-> "Bo ", elo |-> 1560, pos |-> "QB", Votes |-> 0],
         [name |-> "Zed", elo |-> 1530, pos |-> "QB", Votes |-> 0],
         [name |-> "Cy", elo |-> 1500, pos |-> "RB", Votes |-> 0] >>,
      << [name |-> "Bo", elo |-> 1560, pos |-> "QB", Votes |-> 0],
         [name |-> "Zed", elo |-> BlankCell, pos |-> "QB", Votes |-> 0],
         [name |-> "Cy", elo |-> 1500, pos |-> "RB", Votes |-> 0] >> }

InitLedger ==
    << [username |-> "al", total_votes |-> 1, weekly_votes |-> 1,
        last_voted |-> MaxDay - 2] >>

Init ==
    /\ sheet \in InitSheets
    /\ votes_sheet = InitLedger
    /\ today = MaxDay - 1
    /\ choices_raises \in BOOLEAN
    /\ session_state = Empty
    /\ sessions = [s \in Sessions |-> NewSessionState]
    /\ elo_call = <<>>

RECURSIVE SumVotes(_)
SumVotes(rows) ==
    IF rows = <<>> THEN 0 ELSE Head(rows).Votes + SumVotes(Tail(rows))

RECURSIVE SumTotals(_)
SumTotals(ledger) ==
    IF ledger = <<>> THEN 0
    ELSE Head(ledger).total_votes + SumTotals(Tail(ledger))

\* what keeps the model finite
Bounded(rows, ledger) ==
    /\ SumVotes(rows) <= MaxVotes
    /\ Len(ledger) <= MaxRows
    /\ SumTotals(ledger) <= MaxTotal

----------------------------------------------------------------------------
(* Actions: one script run each *)

\* a run that no widget triggered: the page is loaded or refreshed
Rerun ==
    /\ \E o \in script_top(session_state) :
          session_state' = o.ss
    /\ UNCHANGED <<sheet, votes_sheet, today, choices_raises, aside>>

\* lines 295-299: a username is typed for the first time in the session
EnterUsername(username) ==
    /\ "player2" \in DOMAIN session_state
    /\ "username" \notin DOMAIN session_state
    /\ \E o \in script_top(session_state) :
          /\ ~o.raised
          /\ LET touch == update_user_vote(Put(o.ss, "username", username),
                                           votes_sheet, username, FALSE)
             IN  /\ session_state' = touch.ss
                 /\ votes_sheet' = touch.votes_sheet
    /\ Bounded(sheet, votes_sheet')
    /\ UNCHANGED <<sheet, today, choices_raises, aside>>

\* lines 240-241: a "Draft" button is pressed; max_votes caps the votes the
\* worksheet may hold afterwards
DraftWithin(selected, remote, max_votes) ==
    /\ "player2" \in DOMAIN session_state
    /\ \E o \in script_top(session_state) :
          /\ ~o.raised
          /\ selected \in {o.ss.player1.name, o.ss.player2.name}
          /\ LET done == process_vote(o.ss, selected, remote)
             IN  /\ session_state' = done.ss
                 /\ sheet' = done.sheet
                 /\ votes_sheet' = done.votes_sheet
    /\ SumVotes(sheet') <= max_votes
    /\ Bounded(<<>>, votes_sheet')
    /\ UNCHANGED <<today, choices_raises, aside>>

Draft(selected, remote) == DraftWithin(selected, remote, MaxVotes)

\* lines 394-423: the "Next Matchup" button, shown once a pick is stored
NextMatchup ==
    /\ "selected_player" \in DOMAIN session_state
    /\ session_state.selected_player # None
    /\ \E o \in script_top(session_state) :
          /\ ~o.raised
          /\ \E n \in next_matchup(o.ss) : session_state' = n.ss
    /\ UNCHANGED <<sheet, votes_sheet, today, choices_raises, aside>>

\* the browser session ends and a new one starts with an empty state
NewSession ==
    /\ session_state' = Empty
    /\ UNCHANGED <<sheet, votes_sheet, today, choices_raises, aside>>

\* midnight passes
NextDay ==
    /\ today < MaxDay
    /\ today' = today + 1
    /\ UNCHANGED <<sheet, votes_sheet, choices_raises, session_state, aside>>

Next ==
    \/ Rerun
    \/ \E username \in Usernames : EnterUsername(username)
    \/ \E selected \in {"Bo", "Bo ", "Zed", "Cy"}, remote \in {"ok", "api_error"} :
          Draft(selected, remote)
    \/ NextMatchup
    \/ NewSession
    \/ NextDay

Spec == Init /\ [][Next]_vars

----------------------------------------------------------------------------
(* One session of the known user, with every write reaching the worksheet *)

InitSession ==
    /\ sheet = << [name |-> "Bo", elo |-> 1560, pos |-> "QB", Votes |-> 0],
                  [name |-> "Zed", elo |-> 1530, pos |-> "QB", Votes |-> 0],
                  [name |-> "Cy", elo |-> 1500, pos |-> "RB", Votes |-> 0] >>
    /\ votes_sheet = InitLedger
    /\ today = MaxDay - 1
    /\ choices_raises = FALSE
    /\ session_state = Empty
    /\ sessions = [s \in Sessions |-> NewSessionState]
    /\ elo_call = <<>>

NextSession ==
    \/ Rerun
    \/ EnterUsername("al")
    \/ \E selected \in {"Bo", "Zed", "Cy"} :
          DraftWithin(selected, "ok", MaxSessionVotes)
    \/ NextMatchup

SpecSession == InitSession /\ [][NextSession]_vars

----------------------------------------------------------------------------
(* The rating engine alone *)

\* the arguments of a call of calculate_elo, drawn from the range of ratings
InitElo ==
    /\ sheet = <<>>
    /\ votes_sheet = <<>>
    /\ today = 0
    /\ choices_raises = FALSE
    /\ session_state = Empty
    /\ sessions = [s \in Sessions |-> NewSessionState]
    /\ elo_call \in (MinElo..MaxElo) \X (MinElo..MaxElo)

\* lines 132-137: the call returns
CalculateElo ==
    /\ Len(elo_call) = 2
    /\ elo_call' = elo_call \o calculate_elo(elo_call[1], elo_call[2])
    /\ UNCHANGED <<sheet, votes_sheet, today, choices_raises, session_state,
                   sessions>>

SpecElo == InitElo /\ [][CalculateElo]_vars

----------------------------------------------------------------------------
(* Two sessions at once.  Each session is a visitor who entered no username: *)
(* process_vote writes Sheet1 and then ends at st.session_state["username"]  *)
(* with KeyError, so a vote leaves the session state and UserVotes alone.    *)
(* update_google_sheet is two steps here: the reads of the worksheet (lines  *)
(* 178-202) and, one network round trip later, batch_update (line 205).      *)

\* lines 243-272: the first script run of session s
RaceLoad(s) ==
    /\ sessions[s].pc = "new"
    /\ \E o \in script_top(Empty) :
          /\ ~o.raised
          /\ sessions' = [sessions EXCEPT
                            ![s] = [pc |-> "page", ss |-> o.ss,
                                    updates |-> <<>>]]
    /\ UNCHANGED <<sheet, votes_sheet, today, choices_raises, session_state,
                   elo_call>>

\* lines 214-217, 178-202: session s presses a Draft button; process_vote
\* computes the ratings and update_google_sheet reads the worksheet
RaceRead(s, selected) ==
    /\ sessions[s].pc = "page"
    /\ selected \in {sessions[s].ss.player1.name, sessions[s].ss.player2.name}
    /\ LET ss == sessions[s].ss
           new == vote_elos(ss.player1, ss.player2, selected)
       IN  sessions' = [sessions EXCEPT
                          ![s].pc = "read",
                          ![s].updates =
                              collected_updates(ss, sheet, ss.player1.name,
                                  new[1], ss.player2.name, new[2])]
    /\ UNCHANGED <<sheet, votes_sheet, today, choices_raises, session_state,
                   elo_call>>

\* line 205: batch_update of session s reaches the worksheet
RaceWrite(s) ==
    /\ sessions[s].pc = "read"
    /\ sheet' = apply_sheet_updates(sheet, sessions[s].updates)
    /\ sessions' = [sessions EXCEPT ![s].pc = "done"]
    /\ UNCHANGED <<votes_sheet, today, choices_raises, session_state,
                   elo_call>>

NextRace ==
    \/ \E s \in Sessions : RaceLoad(s)
    \/ \E s \in Sessions, selected \in {"Bo", "Bo ", "Zed", "Cy"} :
          RaceRead(s, selected)
    \/ \E s \in Sessions : RaceWrite(s)

SpecRace == Init /\ [][NextRace]_vars

----------------------------------------------------------------------------
(* process_vote called directly *)

\* names that belong to no player of the worksheet
UnknownIds == {"Nobody"}

\* lines 212-228: process_vote called with a name that is on neither button of
\* the page.  The page itself calls it only from the two Draft buttons.
ChooseUnknown(item_id, remote) ==
    /\ "player2" \in DOMAIN session_state
    /\ \E o \in script_top(session_state) :
          /\ ~o.raised
          /\ item_id \notin {o.ss.player1.name, o.ss.player2.name}
          /\ LET done == process_vote(o.ss, item_id, remote)
             IN  /\ session_state' = done.ss
                 /\ sheet' = done.sheet
                 /\ votes_sheet' = done.votes_sheet
    /\ Bounded(sheet', votes_sheet')
    /\ UNCHANGED <<today, choices_raises, aside>>

NextCall ==
    \/ Next
    \/ \E item_id \in UnknownIds, remote \in {"ok", "api_error"} :
          ChooseUnknown(item_id, remote)

SpecCall == Init /\ [][NextCall]_vars

----------------------------------------------------------------------------
(* Vocabulary of the properties *)

\* the orchestrator shows the result of a stored pick
Resolved ==
    /\ "selected_player" \in DOMAIN session_state
    /\ session_state.selected_player # None

\* a matchup is on the page
MatchupShown ==
    /\ "player1" \in DOMAIN session_state
    /\ "player2" \in DOMAIN session_state

\* this step runs process_vote
VoteStep == \E selected \in {"Bo", "Bo ", "Zed", "Cy"},
               remote \in {"ok", "api_error"} : Draft(selected, remote)

\* this step runs process_vote and its write to Sheet1 does not happen: the
\* API call fails or a row of the matchup is not found
FailedWriteStep ==
    \E selected \in {"Bo", "Bo ", "Zed", "Cy"}, remote \in {"ok", "api_error"} :
        /\ Draft(selected, remote)
        /\ \/ remote = "api_error"
           \/ player_row_idx(sheet, session_state.player1.name) = 0
           \/ player_row_idx(sheet, session_state.player2.name) = 0

\* this step is the track-only touch of a username
TrackStep == \E username \in Usernames : EnterUsername(username)

\* no row of UserVotes gains votes in this step and an appended row has none
NoCountIncrease ==
    /\ Len(votes_sheet') >= Len(votes_sheet)
    /\ \A i \in DOMAIN votes_sheet :
          /\ votes_sheet'[i].total_votes <= votes_sheet[i].total_votes
          /\ votes_sheet'[i].weekly_votes <= votes_sheet[i].weekly_votes
    /\ \A i \in DOMAIN votes_sheet' \ DOMAIN votes_sheet :
          /\ votes_sheet'[i].total_votes = 0
          /\ votes_sheet'[i].weekly_votes = 0

\* the rows of a ledger that belong to a username, by its lower-cased key
UserRows(ledger, username) ==
    {i \in DOMAIN ledger : Lower(ledger[i].username) = Lower(username)}

\* total_votes of the user's record, the first row with the key; 0 without one
UserTotal(ledger, username) ==
    IF UserRows(ledger, username) = {} THEN 0
    ELSE ledger[Min(UserRows(ledger, username))].total_votes

----------------------------------------------------------------------------
(* Properties *)

\* C1: once a pick is stored for the matchup (Resolved), a further press of a
\* Draft button before "Next Matchup" writes nothing: neither worksheet changes.
C1_SecondChooseIsNoOp ==
    [][(Resolved /\ VoteStep) =>
         (sheet' = sheet /\ votes_sheet' = votes_sheet)]_vars

\* C2: a vote cast in AwaitingChoice whose write to the rating store fails
\* leaves the orchestrator in AwaitingChoice: selected_player stays unset and
\* updated_elo stays empty.
C2_FailureRollback ==
    [][(~Resolved /\ FailedWriteStep) =>
         /\ session_state'.selected_player = None
         /\ DOMAIN session_state'.updated_elo = {}]_vars

\* C3: a vote whose write to the rating store did not happen increments no
\* vote counter of the participation ledger.
C3_FailedVoteNotCounted ==
    [][FailedWriteStep => NoCountIncrease]_vars

\* C4: the two players of every matchup are different.
C4_DistinctPlayers ==
    MatchupShown =>
        session_state.player1.name # session_state.player2.name

\* C5: when process_vote has stored a pick and written ratings, the session
\* cache holds the ratings just written and the ledger just written.
C5_CacheFollowsCommit ==
    [][(VoteStep /\ Resolved' /\ sheet' # sheet) =>
         /\ \A i \in DOMAIN sheet :
               get_player_elo(session_state', sheet[i].name) = sheet'[i].elo
         /\ session_state'.user_data_cache = user_frame(votes_sheet')]_vars

\* C6: a vote of a user whose record exists (in the worksheet and in the frame
\* the session read from it), cast on a Monday when the record's last_voted is
\* another day, leaves weekly_votes = 1, total_votes one higher and
\* last_voted = today.
C6_MondayVoteResetsWeekly ==
    [][(/\ ~Resolved
        /\ VoteStep
        /\ Resolved'
        /\ Weekday(today) = 0
        /\ UserRows(votes_sheet, session_state.username) # {}
        /\ UserRows(session_state.user_data_cache, session_state.username)
             = UserRows(votes_sheet, session_state.username)
        /\ votes_sheet[Min(UserRows(votes_sheet, session_state.username))]
             .last_voted # today)
       => LET i == Min(UserRows(votes_sheet, session_state.username))
          IN  /\ votes_sheet'[i].weekly_votes = 1
              /\ votes_sheet'[i].total_votes = votes_sheet[i].total_votes + 1
              /\ votes_sheet'[i].last_voted = today]_vars

\* C7: every vote cast from AwaitingChoice, written to the rating store and
\* stored as the pick adds exactly one to total_votes of the voter's record.
C7_VoteCountedOnce ==
    [][(~Resolved /\ VoteStep /\ Resolved' /\ sheet' # sheet) =>
         UserTotal(votes_sheet', session_state'.username)
           = UserTotal(votes_sheet, session_state'.username) + 1]_vars

\* C8: the ledger holds at most one row per lower-cased username.
C8_UniqueUsername ==
    \A i, j \in DOMAIN votes_sheet :
        Lower(votes_sheet[i].username) = Lower(votes_sheet[j].username) => i = j

\* C9: a track-only touch never increases a vote counter: a row it appends has
\* total_votes = 0 and weekly_votes = 0 and no existing row gains votes.
C9_TrackOnlyNeverCounts ==
    [][TrackStep => NoCountIncrease]_vars

\* C9 witness: on a Monday the track-only touch of the existing user "al" has
\* reset the weekly counter and stamped the day without counting a vote.
C9_Witness ==
    /\ "username" \in DOMAIN session_state
    /\ session_state.username = "al"
    /\ Weekday(today) = 0
    /\ votes_sheet[1] = [username |-> "al", total_votes |-> 1,
                         weekly_votes |-> 0, last_voted |-> today]

\* C10: on a Monday, a row whose last_voted is already today keeps its weekly
\* votes in every step: no touch resets it a second time.
C10_ResetOncePerMonday ==
    [][\A i \in DOMAIN votes_sheet :
          (Weekday(today) = 0 /\ votes_sheet[i].last_voted = today) =>
              votes_sheet'[i].weekly_votes >= votes_sheet[i].weekly_votes]_vars

\* C10 witness: "al" voted on a Monday after that Monday's reset, and a later
\* session (no pick stored, no matchup drawn by "Next Matchup") has touched
\* the record again: the vote of that Monday is still counted.
C10_Witness ==
    /\ "username" \in DOMAIN session_state
    /\ session_state.username = "al"
    /\ "last_player1" \notin DOMAIN session_state
    /\ ~Resolved
    /\ Weekday(today) = 0
    /\ votes_sheet[1] = [username |-> "al", total_votes |-> 2,
                         weekly_votes |-> 1, last_voted |-> today]
    /\ session_state.user_data_cache[1].total_votes = 2

\* C11: process_vote called in AwaitingChoice with a name that is neither
\* player of the matchup is rejected: the pick, the new ratings and the matchup
\* of the session stay as they were and neither worksheet is written.
C11_UnknownChoiceRejected ==
    [][(~Resolved /\ \E item_id \in UnknownIds, remote \in {"ok", "api_error"} :
                        ChooseUnknown(item_id, remote))
        => /\ session_state'.selected_player = None
           /\ DOMAIN session_state'.updated_elo = {}
           /\ session_state'.player1 = session_state.player1
           /\ session_state'.player2 = session_state.player2
           /\ sheet' = sheet
           /\ votes_sheet' = votes_sheet]_vars

\* the results of a uniform draw from a frame, none of them an error
UniformDraw(df) == {[raised |-> FALSE, row |-> df[i]] : i \in DOMAIN df}

\* C12: on a frame the page samples from (the cached players, the close-rating
\* candidates) whose ratings are all equal, the sampler does not raise and
\* every row of the frame is a possible result.
C12_EqualRatingsUniform ==
    /\ ("players_cache" \in DOMAIN session_state
          /\ session_state.players_cache # <<>>
          /\ Cardinality(EloValues(session_state.players_cache)) = 1)
        => aggressive_weighted_selection(session_state.players_cache)
             = UniformDraw(session_state.players_cache)
    /\ ("player2_candidates" \in DOMAIN session_state
          /\ session_state.player2_candidates # <<>>
          /\ Cardinality(EloValues(session_state.player2_candidates)) = 1)
        => aggressive_weighted_selection(session_state.player2_candidates)
             = UniformDraw(session_state.player2_candidates)

\* C13: when a session reads the rating store, every row of the worksheet is
\* in the cached frame with a numeric rating: its own, or 1500 when its cell
\* is empty.
C13_MissingRatingDefaults ==
    [][("players_cache" \notin DOMAIN session_state
          /\ "players_cache" \in DOMAIN session_state')
        => \A i \in DOMAIN sheet :
             \E j \in DOMAIN session_state'.players_cache :
                /\ session_state'.players_cache[j].name = sheet[i].name
                /\ session_state'.players_cache[j].elo
                      = IF sheet[i].elo = BlankCell THEN 1500
                        ELSE sheet[i].elo]_vars

\* the step keeps the matchup that is on the page
SameMatchup ==
    /\ MatchupShown
    /\ "player1" \in DOMAIN session_state'
    /\ "player2" \in DOMAIN session_state'
    /\ session_state'.player1 = session_state.player1
    /\ session_state'.player2 = session_state.player2

\* C14: while the matchup stays, the initial ratings recorded for its players
\* never change, whatever vote or rerun happens; and once a pick is stored the
\* change shown for each player is the rating shown minus the rating the player
\* had in the cache when the matchup was drawn.
C14_InitialEloImmutable ==
    [][/\ (SameMatchup /\ "initial_elo" \in DOMAIN session_state)
          => \A n \in {session_state.player1.name, session_state.player2.name}
                      \cap DOMAIN session_state.initial_elo :
                /\ n \in DOMAIN session_state'.initial_elo
                /\ session_state'.initial_elo[n] = session_state.initial_elo[n]
       /\ ("selected_player" \in DOMAIN session_state'
            /\ session_state'.selected_player # None)
          => \A p \in {session_state'.player1, session_state'.player2} :
                displayed_change(session_state', p)
                  = shown_elo(session_state', p) - p.elo]_vars

\* C14 witness: a pick is stored, the new rating of player 1 differs from its
\* initial rating, and the initial rating is still the one of the cache.
C14_Witness ==
    /\ Resolved
    /\ session_state.player1.name # session_state.player2.name
    /\ session_state.player1.name \in DOMAIN session_state.updated_elo
    /\ session_state.updated_elo[session_state.player1.name]
         # session_state.initial_elo[session_state.player1.name]
    /\ session_state.initial_elo[session_state.player1.name]
         = session_state.player1.elo

\* the last update of a batch that writes the cell of update u
LastOnCell(updates, u) ==
    updates[Max({k \in DOMAIN updates :
                   updates[k].row = u.row /\ updates[k].col = u.col})]

\* the cell of the worksheet an update writes
CellOf(rows, u) ==
    IF u.col = "elo" THEN rows[u.row].elo ELSE rows[u.row].Votes

\* C15: sessions are not coordinated: when the batch of a session reaches the
\* worksheet, every cell it names takes the value the session computed from
\* what it read before, whatever another session wrote in between (the last
\* writer wins, and a vote count written is the count read plus one).
C15_LastWriterWins ==
    [][\A s \in Sessions :
          RaceWrite(s) =>
             \A k \in DOMAIN sessions[s].updates :
                CellOf(sheet', sessions[s].updates[k])
                  = LastOnCell(sessions[s].updates,
                               sessions[s].updates[k]).value]_vars

\* the player of both matchups whose vote count was read by both sessions
\* before either wrote
SharedRow(i) ==
    \A s \in Sessions :
        /\ sessions[s].ss.player1.name # sessions[s].ss.player2.name
        /\ \E k \in DOMAIN sessions[s].updates :
              /\ sessions[s].updates[k].row = i
              /\ sessions[s].updates[k].col = "Votes"
              /\ sessions[s].updates[k].value = 1

\* C15 witness: both sessions have voted on matchups that share a player; the
\* player's vote count has grown by one, not two, and the rating stored is the
\* one session 2 computed, not the one session 1 computed.
C15_Witness ==
    /\ \A s \in Sessions : sessions[s].pc = "done"
    /\ \E i \in DOMAIN sheet :
          /\ SharedRow(i)
          /\ sheet[i].Votes = 1
          /\ \E k \in DOMAIN sessions[2].updates :
                /\ sessions[2].updates[k] =
                      [row |-> i, col |-> "elo", value |-> sheet[i].elo]
          /\ \E k \in DOMAIN sessions[1].updates :
                /\ sessions[1].updates[k].row = i
                /\ sessions[1].updates[k].col = "elo"
                /\ sessions[1].updates[k].value # sheet[i].elo

\* C16: for all ratings of the range, calculate_elo gives the winner a gain
\* in [0, K] and the loser a loss in [0, K].
C16_GainWithinK ==
    Len(elo_call) = 4 =>
        /\ elo_call[1] <= elo_call[3]
        /\ elo_call[3] <= elo_call[1] + K
        /\ elo_call[2] - K <= elo_call[4]
        /\ elo_call[4] <= elo_call[2]

\* C16 witness: a winner rated far below the loser gains all of K and the
\* loser loses all of K.
C16_Witness ==
    /\ Len(elo_call) = 4
    /\ elo_call[1] < elo_call[2]
    /\ elo_call[3] = elo_call[1] + K
    /\ elo_call[4] = elo_call[2] - K

\* C17: "Next Matchup" is taken only when a pick is stored, and after it the
\* pick is unset, the new ratings are empty and the initial ratings are exactly
\* the cached ratings of the two players now on the page.
C17_AdvanceReplacesMatchup ==
    [][NextMatchup =>
         /\ Resolved
         /\ session_state'.selected_player = None
         /\ DOMAIN session_state'.updated_elo = {}
         /\ DOMAIN session_state'.initial_elo
              = {session_state'.player1.name, session_state'.player2.name}
         /\ \A p \in {session_state'.player1, session_state'.player2} :
               session_state'.initial_elo[p.name]
                 = get_player_elo(session_state', p.name)]_vars

\* the rows of the cache whose rating lies strictly within the band of elo
InBandRows(ss, elo) ==
    {i \in DOMAIN ss.players_cache :
        /\ ss.players_cache[i].elo > elo - Band
        /\ ss.players_cache[i].elo < elo + Band}

\* C18: in every matchup the cached rating of player 2 lies strictly within
\* 50 of the rating of player 1, unless no row of the cache lies in that band.
C18_Player2InBand ==
    MatchupShown =>
        \/ InBandRows(session_state, session_state.player1.elo) = {}
        \/ /\ session_state.player2.elo > session_state.player1.elo - Band
           /\ session_state.player2.elo < session_state.player1.elo + Band

\* C19: a vote of a named user, cast in AwaitingChoice on two different
\* players, that reaches the worksheet stores, for both, the rating update
\* applied to the ratings the worksheet held before the vote (the ratings the
\* votes before it stored).
C19_RatingsAccumulate ==
    [][\A selected \in {"Bo", "Zed", "Cy"} :
          (/\ DraftWithin(selected, "ok", MaxSessionVotes)
           /\ "username" \in DOMAIN session_state
           /\ ~Resolved
           /\ session_state.player1.name # session_state.player2.name
           /\ sheet' # sheet)
          => LET player1 == session_state.player1
                 player2 == session_state.player2
                 i1 == player_row_idx(sheet, player1.name)
                 i2 == player_row_idx(sheet, player2.name)
                 folded == vote_elos(
                     [name |-> player1.name, elo |-> sheet[i1].elo],
                     [name |-> player2.name, elo |-> sheet[i2].elo], selected)
             IN  /\ sheet'[i1].elo = folded[1]
                 /\ sheet'[i2].elo = folded[2]]_vars

\* C20: the candidates stored for player 2 are never empty: they hold the row
\* of player 1, so player 2 is never drawn from the whole cache.
C20_CandidatesHoldPlayer1 ==
    ("player1" \in DOMAIN session_state
       /\ "player2_candidates" \in DOMAIN session_state)
    => /\ \E i \in DOMAIN session_state.player2_candidates :
             session_state.player2_candidates[i] = session_state.player1
       /\ player2_pool(session_state) = session_state.player2_candidates

\* C20 witness: a matchup drawn by "Next Matchup" whose band holds no other
\* player: the candidates are player 1 alone.
C20_Witness ==
    /\ MatchupShown
    /\ "last_player1" \in DOMAIN session_state
    /\ session_state.last_player1 = session_state.player1.name
    /\ session_state.player2_candidates = <<session_state.player1>>
    /\ session_state.player2 = session_state.player1

\* the sampler, given a frame with two different ratings or more, returns a
\* row and never one with the lowest rating of the frame
NeverLowest(df) ==
    Cardinality(EloValues(df)) >= 2 =>
        \A o \in aggressive_weighted_selection(df) :
            /\ ~o.raised
            /\ o.row.elo > Min(EloValues(df))

\* C21: on the frames the page samples from, a row with the minimum rating is
\* never returned when the frame has two different ratings or more; so
\* player 1 is never a lowest-rated player of such a cache.
C21_LowestNeverDrawn ==
    /\ "players_cache" \in DOMAIN session_state
          => NeverLowest(session_state.players_cache)
    /\ "player2_candidates" \in DOMAIN session_state
          => NeverLowest(session_state.player2_candidates)
    /\ ("player1" \in DOMAIN session_state
          /\ Cardinality(EloValues(session_state.players_cache)) >= 2)
        => session_state.player1.elo
             > Min(EloValues(session_state.players_cache))

\* C21 witness: "Next Matchup" has drawn player 1 from a cache of three
\* different ratings, and it is the player in the middle: only the lowest is
\* left out.
C21_Witness ==
    /\ MatchupShown
    /\ "last_player1" \in DOMAIN session_state
    /\ Cardinality(EloValues(session_state.players_cache)) = 3
    /\ session_state.player1.elo
         < Max(EloValues(session_state.players_cache))
    /\ session_state.player1.elo
         > Min(EloValues(session_state.players_cache))

====
